---- MODULE Spec2Model ----
(***************************************************************************)
(* prompt-dj: the control-input routing and state-synchronisation core.    *)
(*                                                                         *)
(*   PromptDjMidi      the store: a Map promptId -> Prompt object          *)
(*   PromptController  one per prompt: text, weight, cc, channel, learn    *)
(*   WeightKnob        one per PromptController: value and drag state      *)
(*                                                                         *)
(* The browser runs one event handler at a time and flushes Lit's pending  *)
(* updates (microtasks) before the next event, so every action below is a  *)
(* whole handler followed by the re-render it scheduled.  The only         *)
(* suspension point is the await in setShowMidi.                           *)
(*                                                                         *)
(* Weights are JavaScript numbers.  They are modelled exactly, as integer  *)
(* multiples of 1/Unit, where Unit makes 0.01, 0.0025 and 2/127 integers.  *)
(* Texts are sequences of one-character strings, so that trim() is         *)
(* computed and not assumed.                                               *)
(***************************************************************************)
EXTENDS Integers, Sequences, FiniteSets, TLC

(***************************************************************************)
(* Numbers                                                                 *)
(***************************************************************************)
\* One weight unit of the model is 1/Unit: 0.01 = 508, 0.0025 = 127, 2/127 = 800.
Unit == 400 * 127

\* Math.max(0, ...): the least weight
MinWeight == 0

MaxWeight == 2 * Unit

\* WeightKnob.handlePointerMove: delta * 0.01
DragStep == Unit \div 100

\* WeightKnob.handleWheel: delta * -0.0025
WheelStep == Unit \div 400

\* The largest value of a Control-Change message (7 bits).
MaxCCValue == 127

\* The handlers one behaviour of the full specification runs.
MaxSteps == 3

\* The getMidiAccess() calls that may be awaiting their result at once.
MaxPending == 2

(***************************************************************************)
(* Inputs                                                                  *)
(***************************************************************************)
None == "none"

\* The keys of the initial collection, in insertion order, and an id that is not one.
PromptIds == <<"p1", "p2">>

UnknownId == "p9"

\* The Prompt objects the initial Map refers to.
Objs == {"o1", "o2"}

Space == " "

TextA == <<"a">>

TextB == <<"b">>

TextC == <<"c">>

\* What the text field may hold when it loses focus.
TypedTexts == {<<>>, <<Space>>, <<Space, "b", Space>>}

PointerYs == {50, 100, 350}

\* deltaY of a wheel event: a tick either way, and a turn across the whole range.
WheelDeltas == {-600, 600}

FullTurns == {-800, 800}

Keys == {"Enter", "Escape"}

\* The texts addFilteredPrompt is called with.
FilterTexts == {TextB}

CCNumbers == {0, 1}

CCChannels == {0, 1}

CCValues == {0, MaxCCValue}

\* The values of the Control-Change messages of the full specification: the ends
\* and the two values in the middle of the range.
RoutedValues == CCValues \cup {63, 64}

DeviceLists == {<<>>, <<"d1">>}

\* The text, weight and cc a prompt-changed event may carry when it does not come
\* from a unit's own handlers.
Payloads ==
  {[text |-> TextB, weight |-> MaxWeight, cc |-> 1],
   [text |-> TextA, weight |-> MinWeight, cc |-> 0]}

StorePayloads == Payloads \cup {[text |-> TextB, weight |-> MinWeight, cc |-> 0]}

(***************************************************************************)
(* Helpers                                                                 *)
(***************************************************************************)
Range(q) == {q[i] : i \in 1..Len(q)}

Min(a, b) == IF a < b THEN a ELSE b

Max(a, b) == IF a > b THEN a ELSE b

\* Clamp without its Math.min(2, ...): Math.max(0, v)
ClampLower(v) == Max(MinWeight, v)

\* Math.max(0, Math.min(2, v))
Clamp(v) == Max(MinWeight, Min(MaxWeight, v))

RECURSIVE TrimStart(_)
TrimStart(t) == IF t # <<>> /\ Head(t) = Space THEN TrimStart(Tail(t)) ELSE t

RECURSIVE TrimEnd(_)
TrimEnd(t) ==
  IF t # <<>> /\ t[Len(t)] = Space THEN TrimEnd(SubSeq(t, 1, Len(t) - 1)) ELSE t

\* String.prototype.trim
Trim(t) == TrimEnd(TrimStart(t))

Slots == 1..Len(PromptIds)

VARIABLES
  heap,              \* Obj -> Prompt: the Prompt objects in memory
  prompts,           \* PromptDjMidi.prompts: the current Map, <<[key, ref]>> in insertion order
  showMidi,          \* PromptDjMidi.showMidi
  midiInputIds,      \* PromptDjMidi.midiInputIds
  activeMidiInputId, \* PromptDjMidi.activeMidiInputId
  filteredPrompts,   \* PromptDjMidi.filteredPrompts
  pending,           \* the setShowMidi calls suspended at await getMidiAccess()
  midi,              \* MidiDispatcher: the active input, None while there is none
  ctrl,              \* slot -> PromptController
  knob,              \* slot -> WeightKnob
  listeners,         \* the knobs whose pointermove/pointerup listeners are on window, in order
  rendered,          \* slot -> the values PromptDjMidi's template last committed
  knobRendered,      \* slot -> the value PromptController's template last committed
  event,             \* the event the last handler was run for
  emitted,           \* the events dispatched by the last handler, in order
  held,              \* <<>>, or <<the prompts-changed detail an observer kept, with what it read then>>
  steps,             \* the handlers run so far
  latest             \* what became of the most recent call of setShowMidi

vars == <<heap, prompts, showMidi, midiInputIds, activeMidiInputId, filteredPrompts,
          pending, midi, ctrl, knob, listeners, rendered, knobRendered, event,
          emitted, held, steps, latest>>

(***************************************************************************)
(* The initial collection and the state after construction and first render *)
(***************************************************************************)
InitialHeap ==
  [o \in Objs |->
     IF o = "o1"
       THEN [promptId |-> "p1", text |-> TextA, weight |-> Unit, cc |-> 0, color |-> "red"]
       ELSE [promptId |-> "p2", text |-> TextC, weight |-> MinWeight, cc |-> 1,
             color |-> "blue"]]

InitialPrompts == <<[key |-> "p1", ref |-> "o1"], [key |-> "p2", ref |-> "o2"]>>

\* Map.prototype.get / has / keys on a Map modelled as <<[key, ref]>>
MapHas(m, k) == \E i \in 1..Len(m) : m[i].key = k

MapGet(m, k) == m[CHOOSE i \in 1..Len(m) : m[i].key = k].ref

MapKeys(m) == [i \in 1..Len(m) |-> m[i].key]

\* Map.prototype.set preceded by a delete of the key: the entry always goes last.
MapSetReinsert(m, k, r) ==
  Append(SelectSeq(m, LAMBDA x : x.key # k), [key |-> k, ref |-> r])

\* Map.prototype.set: an existing key keeps its place, a new key goes last.
MapSet(m, k, r) ==
  IF MapHas(m, k)
    THEN [i \in 1..Len(m) |-> IF m[i].key = k THEN [key |-> k, ref |-> r] ELSE m[i]]
    ELSE Append(m, [key |-> k, ref |-> r])

\* What a reader of the Map m sees now: the record behind each entry.
Deref(h, m) == [i \in 1..Len(m) |-> h[m[i].ref]]

(***************************************************************************)
(* A handler runs on a record s of the whole program state ("world"), so   *)
(* that the calls it makes are composed in program order.  Beside the      *)
(* variables, s carries what Lit has scheduled: changed[i], the reactive   *)
(* properties of PromptController i set to a new value since its last      *)
(* update, and djDirty, whether PromptDjMidi has an update pending.        *)
(***************************************************************************)
World ==
  [heap |-> heap, prompts |-> prompts, showMidi |-> showMidi,
   midiInputIds |-> midiInputIds, activeMidiInputId |-> activeMidiInputId,
   filteredPrompts |-> filteredPrompts, pending |-> pending, midi |-> midi,
   ctrl |-> ctrl, knob |-> knob, rendered |-> rendered, knobRendered |-> knobRendered,
   listeners |-> listeners,
   emitted |-> <<>>, changed |-> [i \in Slots |-> {}], djDirty |-> FALSE]

\* EventTarget.dispatchEvent, as far as the log of the handler's events goes.
Emit(s, e) == [s EXCEPT !.emitted = Append(@, e)]

\* A Lit reactive property of PromptController i is assigned: a new value schedules an update.
SetProp(s, i, f, v) ==
  IF s.ctrl[i][f] = v
    THEN s
    ELSE [s EXCEPT !.ctrl[i][f] = v, !.changed[i] = @ \cup {f}]

(***************************************************************************)
(* PromptDjMidi: the store                                                 *)
(***************************************************************************)
\* handlePromptChanged creating the entry of an id it does not know (an upsert).
handlePromptChangedUpsert(s, detail) ==
  LET known == MapHas(s.prompts, detail.promptId)
      prompt == IF known THEN MapGet(s.prompts, detail.promptId) ELSE "o9"
      h0 == IF known THEN s.heap ELSE s.heap @@ ("o9" :> detail)
      h == [h0 EXCEPT ![prompt].text = detail.text,
                      ![prompt].weight = detail.weight,
                      ![prompt].cc = detail.cc]
      newPrompts == MapSet(s.prompts, detail.promptId, prompt)
  IN  Emit([s EXCEPT !.heap = h, !.prompts = newPrompts, !.djDirty = TRUE],
           [type |-> "prompts-changed", detail |-> newPrompts,
            seen |-> Deref(h, newPrompts)])

\* handlePromptChanged without the return after console.error: the unchanged
\* collection is published all the same.
handlePromptChangedNoReturn(s, detail) ==
  LET known == MapHas(s.prompts, detail.promptId)
      s1 == IF known THEN s
            ELSE Emit(s, [type |-> "console.error", promptId |-> detail.promptId])
      h == IF known
             THEN [s.heap EXCEPT ![MapGet(s.prompts, detail.promptId)].text = detail.text,
                                 ![MapGet(s.prompts, detail.promptId)].weight = detail.weight,
                                 ![MapGet(s.prompts, detail.promptId)].cc = detail.cc]
             ELSE s.heap
  IN  Emit([s1 EXCEPT !.heap = h, !.djDirty = TRUE],
           [type |-> "prompts-changed", detail |-> s.prompts,
            seen |-> Deref(h, s.prompts)])

\* handlePromptChanged with prompt.weight += weight in place of prompt.weight = weight.
handlePromptChangedAdditive(s, detail) ==
  IF ~MapHas(s.prompts, detail.promptId)
    THEN Emit(s, [type |-> "console.error", promptId |-> detail.promptId])
    ELSE
      LET prompt == MapGet(s.prompts, detail.promptId)
          h == [s.heap EXCEPT ![prompt].text = detail.text,
                              ![prompt].weight = @ + detail.weight,
                              ![prompt].cc = detail.cc]
          newPrompts == MapSet(s.prompts, detail.promptId, prompt)
      IN  Emit([s EXCEPT !.heap = h, !.prompts = newPrompts, !.djDirty = TRUE],
               [type |-> "prompts-changed", detail |-> newPrompts,
                seen |-> Deref(h, newPrompts)])

handlePromptChanged(s, detail) ==
  IF ~MapHas(s.prompts, detail.promptId)
    THEN Emit(s, [type |-> "console.error", promptId |-> detail.promptId])
    ELSE
      LET prompt == MapGet(s.prompts, detail.promptId)
          h == [s.heap EXCEPT ![prompt].text = detail.text,
                              ![prompt].weight = detail.weight,
                              ![prompt].cc = detail.cc]
          newPrompts == MapSet(s.prompts, detail.promptId, prompt)
      IN  Emit([s EXCEPT !.heap = h, !.prompts = newPrompts, !.djDirty = TRUE],
               [type |-> "prompts-changed", detail |-> newPrompts,
                seen |-> Deref(h, newPrompts)])

\* setShowMidi up to its await: the call of getMidiAccess() is left pending.
setShowMidi(s, show) ==
  LET s1 == [s EXCEPT !.showMidi = show, !.djDirty = @ \/ (s.showMidi # show)]
  IN  IF ~show THEN s1 ELSE [s1 EXCEPT !.pending = @ + 1]

toggleShowMidi(s) == setShowMidi(s, ~s.showMidi)

\* setShowMidi after its await, getMidiAccess() having given inputIds.
setShowMidiResolved(s, inputIds) ==
  [s EXCEPT !.pending = @ - 1,
            !.midiInputIds = inputIds,
            !.activeMidiInputId = s.midi,
            !.djDirty = @ \/ (s.midiInputIds # inputIds) \/ (s.activeMidiInputId # s.midi)]

\* The catch block of setShowMidi without its this.showMidi = false.
setShowMidiRejectedKeepsShow(s) ==
  Emit([s EXCEPT !.pending = @ - 1], [type |-> "error", detail |-> "no midi access"])

\* setShowMidi after its await, getMidiAccess() having thrown: the catch block.
setShowMidiRejected(s) ==
  Emit([s EXCEPT !.pending = @ - 1, !.showMidi = FALSE, !.djDirty = @ \/ s.showMidi],
       [type |-> "error", detail |-> "no midi access"])

addFilteredPrompt(s, text) ==
  [s EXCEPT !.filteredPrompts = @ \cup {text}, !.djDirty = TRUE]

\* MidiDispatcher.getMidiAccess succeeding: the first input becomes the active
\* one when none is.
getMidiAccess(s, inputIds) ==
  IF s.midi = None /\ inputIds # <<>> THEN [s EXCEPT !.midi = Head(inputIds)] ELSE s

(***************************************************************************)
(* PromptController                                                        *)
(***************************************************************************)
\* dispatchPromptChange sending the text the unit was constructed with.
dispatchPromptChangeStale(s, i) ==
  LET c == s.ctrl[i]
      detail == [promptId |-> c.promptId, text |-> InitialHeap[InitialPrompts[i].ref].text,
                 weight |-> c.weight, cc |-> c.cc, color |-> c.color]
  IN  handlePromptChanged(Emit(s, [type |-> "prompt-changed", slot |-> i,
                                   detail |-> detail]),
                          detail)

dispatchPromptChange(s, i) ==
  LET c == s.ctrl[i]
      detail == [promptId |-> c.promptId, text |-> c.text, weight |-> c.weight,
                 cc |-> c.cc, color |-> c.color]
  IN  handlePromptChanged(Emit(s, [type |-> "prompt-changed", slot |-> i,
                                   detail |-> detail]),
                          detail)

\* (value / 127) * 2 with the division truncated to an integer.
weightFromControlChangeTruncated(value) == (value \div MaxCCValue) * 2 * Unit

\* (value / 127) * 2
weightFromControlChange(value) == (value * 2 * Unit) \div MaxCCValue

\* The cc-message listener applying the value as well when it captures a binding.
onCcMessageCaptureAndRoute(s, i, channel, cc, value) ==
  IF s.ctrl[i].learnMode
    THEN dispatchPromptChange(
           SetProp(SetProp(SetProp(SetProp(s, i, "cc", cc), i, "channel", channel),
                           i, "learnMode", FALSE),
                   i, "weight", weightFromControlChange(value)), i)
    ELSE IF cc = s.ctrl[i].cc
      THEN dispatchPromptChange(SetProp(s, i, "weight", weightFromControlChange(value)), i)
      ELSE s

\* The cc-message listener leaving learn mode on after it captures a binding.
onCcMessageKeepLearning(s, i, channel, cc, value) ==
  IF s.ctrl[i].learnMode
    THEN dispatchPromptChange(SetProp(SetProp(s, i, "cc", cc), i, "channel", channel), i)
    ELSE IF cc = s.ctrl[i].cc
      THEN dispatchPromptChange(SetProp(s, i, "weight", weightFromControlChange(value)), i)
      ELSE s

\* The cc-message listener routing a value only to a unit bound on the event's channel.
onCcMessageChannelChecked(s, i, channel, cc, value) ==
  IF s.ctrl[i].learnMode
    THEN dispatchPromptChange(
           SetProp(SetProp(SetProp(s, i, "cc", cc), i, "channel", channel),
                   i, "learnMode", FALSE), i)
    ELSE IF cc = s.ctrl[i].cc /\ channel = s.ctrl[i].channel
      THEN dispatchPromptChange(SetProp(s, i, "weight", weightFromControlChange(value)), i)
      ELSE s

\* The cc-message listener connectedCallback registers.
onCcMessage(s, i, channel, cc, value) ==
  IF s.ctrl[i].learnMode
    THEN dispatchPromptChange(
           SetProp(SetProp(SetProp(s, i, "cc", cc), i, "channel", channel),
                   i, "learnMode", FALSE), i)
    ELSE IF cc = s.ctrl[i].cc
      THEN dispatchPromptChange(SetProp(s, i, "weight", weightFromControlChange(value)), i)
      ELSE s

resetText(s, i) ==
  [SetProp(s, i, "text", s.ctrl[i].lastValidText)
     EXCEPT !.ctrl[i].textContent = s.ctrl[i].lastValidText]

\* The blur listener storing the trimmed content even when it is empty.
updateTextNoRevert(s, i) ==
  LET newText == Trim(s.ctrl[i].textContent)
  IN  dispatchPromptChange(
        [SetProp(s, i, "text", newText) EXCEPT !.ctrl[i].lastValidText = newText], i)

\* The blur listener of the text field.
updateText(s, i) ==
  LET newText == Trim(s.ctrl[i].textContent)
      s1 == IF newText = <<>>
              THEN resetText(s, i)
              ELSE [SetProp(s, i, "text", newText) EXCEPT !.ctrl[i].lastValidText = newText]
  IN  dispatchPromptChange(s1, i)

\* textInput.blur() makes the browser run the blur listener before it returns.
onKeyDown(s, i, key) ==
  LET s1 == IF key = "Enter" THEN updateText(s, i) ELSE s
  IN  IF key = "Escape" THEN updateText(resetText(s1, i), i) ELSE s1

\* The input listener taking the knob's value without notifying the store.
updateWeightNoNotify(s, i) == SetProp(s, i, "weight", s.knob[i].value)

\* The input listener on the weight-knob.
updateWeight(s, i) ==
  dispatchPromptChange(SetProp(s, i, "weight", s.knob[i].value), i)

toggleLearnMode(s, i) == SetProp(s, i, "learnMode", ~s.ctrl[i].learnMode)

\* PromptController.update without its first statement: hiding the CC display
\* leaves learn mode as it is.
updateKeepsLearnMode(s, i) ==
  IF "text" \in s.changed[i]
    THEN [s EXCEPT !.ctrl[i].textContent = s.ctrl[i].text]
    ELSE s

\* PromptController.update leaving learn mode as well when the weight or the text
\* of the unit has changed.
updateDisarms(s, i) ==
  LET s1 == IF \/ "showCC" \in s.changed[i] /\ ~s.ctrl[i].showCC
               \/ s.changed[i] \cap {"weight", "text"} # {}
              THEN [s EXCEPT !.ctrl[i].learnMode = FALSE]
              ELSE s
  IN  IF "text" \in s.changed[i]
        THEN [s1 EXCEPT !.ctrl[i].textContent = s1.ctrl[i].text]
        ELSE s1

\* PromptController.update, run by Lit with the properties changed since the last one.
update(s, i) ==
  LET s1 == IF "showCC" \in s.changed[i] /\ ~s.ctrl[i].showCC
              THEN [s EXCEPT !.ctrl[i].learnMode = FALSE]
              ELSE s
  IN  IF "text" \in s.changed[i]
        THEN [s1 EXCEPT !.ctrl[i].textContent = s1.ctrl[i].text]
        ELSE s1

(***************************************************************************)
(* WeightKnob                                                              *)
(***************************************************************************)
\* handlePointerDown, were addEventListener to add a registered listener again.
handlePointerDownAppends(s, i, clientY) ==
  [s EXCEPT !.knob[i].dragStartPos = clientY,
            !.knob[i].dragStartValue = s.knob[i].value,
            !.listeners = Append(@, i)]

\* addEventListener does not add a listener that is already registered.
handlePointerDown(s, i, clientY) ==
  [s EXCEPT !.knob[i].dragStartPos = clientY,
            !.knob[i].dragStartValue = s.knob[i].value,
            !.listeners = IF i \in Range(@) THEN @ ELSE Append(@, i)]

\* handlePointerMove with the difference taken the other way round.
handlePointerMoveInverted(s, i, clientY) ==
  LET delta == clientY - s.knob[i].dragStartPos
      value == Clamp(s.knob[i].dragStartValue + delta * DragStep)
  IN  updateWeight([s EXCEPT !.knob[i].value = value], i)

handlePointerMove(s, i, clientY) ==
  LET delta == s.knob[i].dragStartPos - clientY
      value == Clamp(s.knob[i].dragStartValue + delta * DragStep)
  IN  updateWeight([s EXCEPT !.knob[i].value = value], i)

handlePointerUp(s, i) ==
  [s EXCEPT !.listeners = SelectSeq(@, LAMBDA j : j # i)]

\* handleWheel with delta * 0.0025 in place of delta * -0.0025.
handleWheelInverted(s, i, deltaY) ==
  LET value == Clamp(s.knob[i].value + deltaY * WheelStep)
  IN  updateWeight([s EXCEPT !.knob[i].value = value], i)

handleWheel(s, i, deltaY) ==
  LET value == Clamp(s.knob[i].value - deltaY * WheelStep)
  IN  updateWeight([s EXCEPT !.knob[i].value = value], i)

(***************************************************************************)
(* Event dispatch to several listeners, in the order they were registered  *)
(***************************************************************************)
\* MidiDispatcher dispatching one cc-message event: every PromptController's
\* listener runs, in the order the controllers were connected.
RECURSIVE dispatchCcMessage(_, _, _, _, _)
dispatchCcMessage(s, i, channel, cc, value) ==
  IF i > Len(PromptIds)
    THEN s
    ELSE dispatchCcMessage(onCcMessage(s, i, channel, cc, value), i + 1, channel, cc, value)

\* window dispatching one pointermove to the listeners ls registered on it.
RECURSIVE dispatchPointerMove(_, _, _)
dispatchPointerMove(s, ls, clientY) ==
  IF ls = <<>>
    THEN s
    ELSE dispatchPointerMove(handlePointerMove(s, Head(ls), clientY), Tail(ls), clientY)

\* window dispatching one pointerup to the listeners ls registered on it.
RECURSIVE dispatchPointerUp(_, _)
dispatchPointerUp(s, ls) ==
  IF ls = <<>> THEN s ELSE dispatchPointerUp(handlePointerUp(s, Head(ls)), Tail(ls))

(***************************************************************************)
(* Lit's update cycle, run before the next event is handled.  A template   *)
(* binding is committed only when its value differs from the one committed *)
(* by the previous render; an attribute value reaches the property through *)
(* String(v) and the property's converter, which gives back v for a        *)
(* string and for a finite number.                                         *)
(***************************************************************************)
\* The bindings of <prompt-controller> in renderPrompts, in template order.
RenderFields == <<"promptId", "filtered", "cc", "text", "weight", "color", "showCC">>

\* The values renderPrompts binds for slot i.
Bound(s, i) ==
  LET prompt == s.heap[s.prompts[i].ref]
  IN  [promptId |-> prompt.promptId,
       filtered |-> prompt.text \in s.filteredPrompts,
       cc |-> prompt.cc, text |-> prompt.text, weight |-> prompt.weight,
       color |-> prompt.color, showCC |-> s.showMidi]

RECURSIVE commitBindings(_, _, _, _)
commitBindings(s, i, new, fs) ==
  IF fs = <<>>
    THEN [s EXCEPT !.rendered[i] = new]
    ELSE LET f == Head(fs)
             s1 == IF new[f] # s.rendered[i][f] THEN SetProp(s, i, f, new[f]) ELSE s
         IN  commitBindings(s1, i, new, Tail(fs))

RECURSIVE renderPrompts(_, _)
renderPrompts(s, i) ==
  IF i > Len(s.prompts) \/ i \notin Slots
    THEN s
    ELSE renderPrompts(commitBindings(s, i, Bound(s, i), RenderFields), i + 1)

\* PromptController.render without the value binding of <weight-knob>.
renderKeepsKnob(s, i) == s

\* PromptController.render: the value binding of <weight-knob>.
render(s, i) ==
  IF s.ctrl[i].weight # s.knobRendered[i]
    THEN [s EXCEPT !.knob[i].value = s.ctrl[i].weight,
                   !.knobRendered[i] = s.ctrl[i].weight]
    ELSE s

RECURSIVE updateControllers(_, _)
updateControllers(s, i) ==
  IF i > Len(PromptIds)
    THEN s
    ELSE updateControllers(IF s.changed[i] # {} THEN render(update(s, i), i) ELSE s, i + 1)

Flush(s) ==
  updateControllers(IF s.djDirty THEN renderPrompts(s, 1) ELSE s, 1)

\* The state after the handler of event e, which produced s, and the update cycle
\* it scheduled.
Commit(s, e) ==
  LET f == Flush(s)
  IN  /\ heap' = f.heap
      /\ prompts' = f.prompts
      /\ showMidi' = f.showMidi
      /\ midiInputIds' = f.midiInputIds
      /\ activeMidiInputId' = f.activeMidiInputId
      /\ filteredPrompts' = f.filteredPrompts
      /\ pending' = f.pending
      /\ midi' = f.midi
      /\ ctrl' = f.ctrl
      /\ knob' = f.knob
      /\ listeners' = f.listeners
      /\ rendered' = f.rendered
      /\ knobRendered' = f.knobRendered
      /\ event' = e
      /\ emitted' = f.emitted

(***************************************************************************)
(* Initial state: constructed with InitialPrompts, connected, first render *)
(* and firstUpdated done.                                                  *)
(***************************************************************************)
InitialController(i) ==
  LET prompt == InitialHeap[InitialPrompts[i].ref]
  IN  [promptId |-> prompt.promptId, text |-> prompt.text, weight |-> prompt.weight,
       color |-> prompt.color, filtered |-> FALSE, cc |-> prompt.cc, channel |-> 0,
       learnMode |-> FALSE, showCC |-> FALSE,
       lastValidText |-> prompt.text, textContent |-> prompt.text]

Init ==
  /\ heap = InitialHeap
  /\ prompts = InitialPrompts
  /\ showMidi = FALSE
  /\ midiInputIds = <<>>
  /\ activeMidiInputId = None
  /\ filteredPrompts = {}
  /\ pending = 0
  /\ midi = None
  /\ ctrl = [i \in Slots |-> InitialController(i)]
  /\ knob = [i \in Slots |->
               [value |-> InitialController(i).weight, dragStartPos |-> 0,
                dragStartValue |-> 0]]
  /\ listeners = <<>>
  /\ rendered = [i \in Slots |->
                   LET c == InitialController(i)
                   IN  [promptId |-> c.promptId, filtered |-> FALSE, cc |-> c.cc,
                        text |-> c.text, weight |-> c.weight, color |-> c.color,
                        showCC |-> FALSE]]
  /\ knobRendered = [i \in Slots |-> InitialController(i).weight]
  /\ event = [type |-> "init"]
  /\ emitted = <<>>
  /\ held = <<>>
  /\ steps = 0
  /\ latest = "none"

(***************************************************************************)
(* Actions: one per event the program handles                              *)
(***************************************************************************)
\* The units that are in learn mode.
Armed == {i \in Slots : ctrl[i].learnMode}

\* A click on the MIDI button.  The events that may hide the CC display record the
\* units that were in learn mode when they arrived.
ClickShowMidi ==
  /\ ~showMidi => pending < MaxPending
  /\ Commit(toggleShowMidi(World), [type |-> "click-show-midi", armed |-> Armed])

\* The host calls setShowMidi.
SetShowMidi(show) ==
  /\ show => pending < MaxPending
  /\ Commit(setShowMidi(World, show),
            [type |-> "setShowMidi", show |-> show, armed |-> Armed])

\* A pending getMidiAccess() gives the inputs; setShowMidi resumes after its await.
MidiAccessGranted(inputIds) ==
  /\ pending > 0
  /\ Commit(setShowMidiResolved(getMidiAccess(World, inputIds), inputIds),
            [type |-> "midi-access-granted", inputIds |-> inputIds])

\* A pending getMidiAccess() throws; setShowMidi resumes in its catch block.
MidiAccessDenied ==
  /\ pending > 0
  /\ Commit(setShowMidiRejected(World), [type |-> "midi-access-denied", armed |-> Armed])

\* A click on the #midi label, were it visible without .show-cc as well.
ClickLearnHidden(i) ==
  Commit(toggleLearnMode(World, i), [type |-> "click-learn", slot |-> i])

\* A click on the #midi label, which is visible only under .show-cc.
ClickLearn(i) ==
  /\ ctrl[i].showCC
  /\ Commit(toggleLearnMode(World, i), [type |-> "click-learn", slot |-> i])

\* The active MIDI input sends a Control-Change message.
CcMessage(channel, cc, value) ==
  /\ midi # None
  /\ Commit(dispatchCcMessage(World, 1, channel, cc, value),
            [type |-> "cc-message", channel |-> channel, cc |-> cc, value |-> value])

\* A pointerdown on knob i; dragging says that the knob was being dragged already.
\* Two Control-Change messages of which only the later one is delivered.
CcMessagesDebounced(channel, cc, first, second) ==
  /\ midi # None
  /\ Commit(dispatchCcMessage(World, 1, channel, cc, second),
            [type |-> "cc-messages", channel |-> channel, cc |-> cc,
             first |-> first, second |-> second])

\* The active MIDI input sends two Control-Change messages for the same cc that are
\* both delivered before the update cycle runs.
CcMessages(channel, cc, first, second) ==
  /\ midi # None
  /\ Commit(dispatchCcMessage(dispatchCcMessage(World, 1, channel, cc, first),
                              1, channel, cc, second),
            [type |-> "cc-messages", channel |-> channel, cc |-> cc,
             first |-> first, second |-> second])

PointerDown(i, clientY) ==
  Commit(handlePointerDown(World, i, clientY),
         [type |-> "pointerdown", slot |-> i, clientY |-> clientY,
          dragging |-> i \in Range(listeners)])

\* A pointermove on window, whether or not a knob listens to it.
PointerMove(clientY) ==
  Commit(dispatchPointerMove(World, listeners, clientY),
         [type |-> "pointermove", clientY |-> clientY])

\* A pointerup on window, whether or not a knob listens to it.
PointerUp ==
  Commit(dispatchPointerUp(World, listeners), [type |-> "pointerup"])

\* The window loses focus, or the pointer is cancelled, while no text field has the
\* focus: WeightKnob registers a listener for pointermove and pointerup only, so no
\* handler runs.
FocusLost ==
  Commit(World, [type |-> "focus-lost"])

Wheel(i, deltaY) ==
  Commit(handleWheel(World, i, deltaY), [type |-> "wheel", slot |-> i, deltaY |-> deltaY])

\* The text field, holding typed, loses focus.
Blur(i, typed) ==
  Commit(updateText([World EXCEPT !.ctrl[i].textContent = typed], i),
         [type |-> "blur", slot |-> i, typed |-> typed])

\* A key is pressed in the text field, holding typed.
KeyDown(i, key, typed) ==
  Commit(onKeyDown([World EXCEPT !.ctrl[i].textContent = typed], i, key),
         [type |-> "keydown", slot |-> i, key |-> key, typed |-> typed])

AddFilteredPrompt(text) ==
  Commit(addFilteredPrompt(World, text), [type |-> "addFilteredPrompt", text |-> text])

\* A prompt-changed event dispatched on a <prompt-controller> by other code than the
\* unit's own handlers; again says that the event before it was the same one.
PromptChanged(detail) ==
  Commit(handlePromptChanged(Emit(World, [type |-> "prompt-changed", slot |-> 0,
                                          detail |-> detail]),
                             detail),
         [type |-> "prompt-changed", detail |-> detail,
          again |-> event.type = "prompt-changed" /\ event.detail = detail])

(***************************************************************************)
(* Specifications.  Spec runs every handler, in any order, for MaxSteps    *)
(* events.  SpecMidi and SpecStore run the handlers of one part of the     *)
(* program without a limit on the number of events: the MIDI binding       *)
(* (show-CC, learn mode, Control-Change routing) and the store (change     *)
(* notifications and what a subscriber of prompts-changed holds).          *)
(***************************************************************************)
\* The prompts-changed events among the events es, in order.
Published(es) == SelectSeq(es, LAMBDA e : e.type = "prompts-changed")

\* A subscriber of prompts-changed keeps the first snapshot it is given: the Map
\* object, and what it read through it when it got it.
Observe ==
  held' = IF held = <<>> /\ Published(emitted') # <<>>
            THEN LET e == Head(Published(emitted'))
                 IN  <<[map |-> e.detail, seen |-> e.seen]>>
            ELSE held

\* The detail of a prompt-changed event for the prompt id, carrying the payload d.
Detail(id, d) ==
  [promptId |-> id, text |-> d.text, weight |-> d.weight, cc |-> d.cc, color |-> "red"]

Tick == steps < MaxSteps /\ steps' = steps + 1

Typed(i) == TypedTexts \cup {ctrl[i].textContent}

Next ==
  \/ Tick /\ ClickShowMidi /\ UNCHANGED <<held, latest>>
  \/ Tick /\ (\E show \in BOOLEAN : SetShowMidi(show)) /\ UNCHANGED <<held, latest>>
  \/ Tick /\ (\E ids \in DeviceLists : MidiAccessGranted(ids)) /\ UNCHANGED <<held, latest>>
  \/ Tick /\ MidiAccessDenied /\ UNCHANGED <<held, latest>>
  \/ Tick /\ (\E i \in Slots : ClickLearn(i)) /\ UNCHANGED <<held, latest>>
  \/ Tick /\ (\E ch \in CCChannels, cc \in CCNumbers, v \in RoutedValues :
                CcMessage(ch, cc, v))
          /\ UNCHANGED <<held, latest>>
  \/ Tick /\ (\E i \in Slots, y \in PointerYs : PointerDown(i, y)) /\ UNCHANGED <<held, latest>>
  \/ Tick /\ (\E y \in PointerYs : PointerMove(y)) /\ UNCHANGED <<held, latest>>
  \/ Tick /\ PointerUp /\ UNCHANGED <<held, latest>>
  \/ Tick /\ FocusLost /\ UNCHANGED <<held, latest>>
  \/ Tick /\ (\E i \in Slots, d \in WheelDeltas : Wheel(i, d)) /\ UNCHANGED <<held, latest>>
  \/ Tick /\ (\E i \in Slots : \E typed \in Typed(i) : Blur(i, typed)) /\ UNCHANGED <<held, latest>>
  \/ Tick /\ (\E i \in Slots, key \in Keys : \E typed \in Typed(i) : KeyDown(i, key, typed))
          /\ UNCHANGED <<held, latest>>
  \/ Tick /\ (\E text \in FilterTexts : AddFilteredPrompt(text)) /\ UNCHANGED <<held, latest>>
  \/ Tick /\ (\E id \in Range(PromptIds) \cup {UnknownId}, d \in Payloads :
                PromptChanged(Detail(id, d)))
          /\ UNCHANGED <<held, latest>>

Spec == Init /\ [][Next]_vars

NextMidi ==
  \/ ClickShowMidi /\ UNCHANGED <<held, steps, latest>>
  \/ (\E show \in BOOLEAN : SetShowMidi(show)) /\ UNCHANGED <<held, steps, latest>>
  \/ (\E ids \in DeviceLists : MidiAccessGranted(ids)) /\ UNCHANGED <<held, steps, latest>>
  \/ MidiAccessDenied /\ UNCHANGED <<held, steps, latest>>
  \/ (\E i \in Slots : ClickLearn(i)) /\ UNCHANGED <<held, steps, latest>>
  \/ (\E ch \in CCChannels, cc \in CCNumbers, v \in CCValues : CcMessage(ch, cc, v))
       /\ UNCHANGED <<held, steps, latest>>
  \/ (\E ch \in CCChannels, cc \in CCNumbers, v \in CCValues :
        CcMessages(ch, cc, v, MaxCCValue - v))
       /\ UNCHANGED <<held, steps, latest>>

SpecMidi == Init /\ [][NextMidi]_vars

NextStore ==
  \/ (\E id \in Range(PromptIds) \cup {UnknownId}, d \in StorePayloads :
        PromptChanged(Detail(id, d)))
       /\ Observe /\ UNCHANGED <<steps, latest>>
  \/ (\E i \in Slots, d \in FullTurns : Wheel(i, d)) /\ Observe /\ UNCHANGED <<steps, latest>>

SpecStore == Init /\ [][NextStore]_vars

\* setShowMidi is called with show: its acquisition, if it starts one, is the most
\* recent one.
Called(show) == latest' = IF show THEN "pending" ELSE "off"

\* A pending acquisition settles with outcome: that of the most recent call, or
\* one started by an earlier call.
Settled(outcome) ==
  \/ latest = "pending" /\ latest' = outcome
  \/ pending > (IF latest = "pending" THEN 1 ELSE 0) /\ latest' = latest

\* The calls of setShowMidi and the completions of their acquisitions, in any
\* order, with clicks on the #midi labels the calls make visible.
NextAccess ==
  \/ (\E i \in Slots : ClickLearn(i)) /\ UNCHANGED <<held, steps, latest>>
  \/ ClickShowMidi /\ Called(~showMidi) /\ UNCHANGED <<held, steps>>
  \/ (\E show \in BOOLEAN : SetShowMidi(show) /\ Called(show)) /\ UNCHANGED <<held, steps>>
  \/ (\E ids \in DeviceLists : MidiAccessGranted(ids)) /\ Settled("granted")
       /\ UNCHANGED <<held, steps>>
  \/ MidiAccessDenied /\ Settled("failed") /\ UNCHANGED <<held, steps>>

SpecAccess == Init /\ [][NextAccess]_vars

\* What the text field of the first unit holds when it loses the focus, in NextEdit.
EditTexts == {<<>>, <<Space, "b", Space>>}

\* The input sources of the units, interleaved without a limit on the number of
\* events: the knobs (a drag of the first knob from y 100 to y 50, the wheel), the
\* text field of the first unit, and MIDI (learn mode on the first unit, and
\* value 127 on channel 1 for either cc), once the MIDI button gave access.
NextEdit ==
  \/ pending = 0 /\ ClickShowMidi /\ UNCHANGED <<held, steps, latest>>
  \/ MidiAccessGranted(<<"d1">>) /\ UNCHANGED <<held, steps, latest>>
  \/ ClickLearn(1) /\ UNCHANGED <<held, steps, latest>>
  \/ (\E cc \in CCNumbers : CcMessage(1, cc, MaxCCValue))
       /\ UNCHANGED <<held, steps, latest>>
  \/ PointerDown(1, 100) /\ UNCHANGED <<held, steps, latest>>
  \/ listeners # <<>> /\ PointerMove(50) /\ UNCHANGED <<held, steps, latest>>
  \/ listeners # <<>> /\ PointerUp /\ UNCHANGED <<held, steps, latest>>
  \/ (\E i \in Slots, d \in FullTurns : Wheel(i, d)) /\ UNCHANGED <<held, steps, latest>>
  \/ (\E typed \in EditTexts : Blur(1, typed)) /\ UNCHANGED <<held, steps, latest>>

SpecEdit == Init /\ [][NextEdit]_vars

(***************************************************************************)
(* Properties                                                              *)
(***************************************************************************)
\* The prompt-changed events among the events es, in order.
Notifs(es) == SelectSeq(es, LAMBDA e : e.type = "prompt-changed")

InRange(w) == MinWeight <= w /\ w <= MaxWeight

\* The record the current collection holds for the prompt id.
Stored(h, m, id) == h[MapGet(m, id)]

\* C1: at most one PromptController is in learn mode, in every reachable state.
C1_AtMostOneLearnMode == Cardinality(Armed) <= 1

\* C2: a Control-Change event that arrives while some prompt is in learn mode is
\* only captured: it changes no prompt's weight, in the units or in the collection.
C2_CaptureExcludesRouting ==
  [][(event'.type = "cc-message" /\ Armed # {})
       => \A j \in Slots :
            /\ ctrl'[j].weight = ctrl[j].weight
            /\ heap'[prompts'[j].ref].weight = heap[prompts[j].ref].weight]_vars

\* C3: every weight a Control-Change value 0..127 maps to, every weight held by a
\* knob, a unit or the collection, and every weight carried by a prompt-changed or
\* prompts-changed event lies in [0, 2].
C3_WeightsInRange ==
  /\ \A v \in 0..MaxCCValue : InRange(weightFromControlChange(v))
  /\ \A o \in DOMAIN heap : InRange(heap[o].weight)
  /\ \A i \in Slots : InRange(ctrl[i].weight) /\ InRange(knob[i].value)
  /\ \A n \in 1..Len(emitted) :
       /\ emitted[n].type = "prompt-changed" => InRange(emitted[n].detail.weight)
       /\ emitted[n].type = "prompts-changed"
            => \A k \in 1..Len(emitted[n].seen) : InRange(emitted[n].seen[k].weight)

\* A pointermove that asked for more than 2 left the knob, and the collection, at 2.
C3_Witness ==
  /\ event.type = "pointermove"
  /\ \E i \in Range(listeners) :
       /\ knob[i].dragStartValue + (knob[i].dragStartPos - event.clientY) * DragStep
            > MaxWeight
       /\ knob[i].value = MaxWeight
       /\ heap[prompts[i].ref].weight = MaxWeight

\* C4: what a subscriber reads through a snapshot it was given earlier is what it
\* read when it was given it, whatever was notified since.
C4_HeldSnapshotStable ==
  held # <<>> => Deref(heap, held[1].map) = held[1].seen

UnknownNotified(e, m) == e.type = "prompt-changed" /\ ~MapHas(m, e.detail.promptId)

KnownNotified(e, m) == e.type = "prompt-changed" /\ MapHas(m, e.detail.promptId)

\* C5: a notification for an id the collection does not have is reported, leaves
\* the Map and every record as they were and publishes no prompts-changed event;
\* a notification for a known id right after it is applied and published.
C5_UnknownIdDropped ==
  [][/\ UnknownNotified(event', prompts)
          => /\ prompts' = prompts
             /\ heap' = heap
             /\ Published(emitted') = <<>>
             /\ \E n \in 1..Len(emitted') :
                  emitted'[n] = [type |-> "console.error",
                                 promptId |-> event'.detail.promptId]
     /\ (UnknownNotified(event, prompts) /\ KnownNotified(event', prompts))
          => LET d == event'.detail
                 r == Stored(heap', prompts', d.promptId)
             IN  /\ r.text = d.text /\ r.weight = d.weight /\ r.cc = d.cc
                 /\ Len(Published(emitted')) = 1]_vars

\* The last notification named an unknown id and was reported.
C5_Witness ==
  /\ UnknownNotified(event, prompts)
  /\ emitted[Len(emitted)] = [type |-> "console.error", promptId |-> UnknownId]

\* C6: a handler that makes one notification, for a known id, leaves the keys of
\* the collection and their order as they were and every other entry unchanged,
\* gives the named entry the notification's text, weight and cc, and publishes
\* exactly one prompts-changed event, which carries the whole new collection.
C6_KnownIdReplaced ==
  [][(Len(Notifs(emitted')) = 1 /\ MapHas(prompts, Notifs(emitted')[1].detail.promptId))
       => LET d == Notifs(emitted')[1].detail
              r == Stored(heap', prompts', d.promptId)
          IN  /\ MapKeys(prompts') = MapKeys(prompts)
              /\ \A n \in 1..Len(prompts) :
                   prompts[n].key # d.promptId
                     => /\ prompts'[n] = prompts[n]
                        /\ heap'[prompts[n].ref] = heap[prompts[n].ref]
              /\ r.text = d.text /\ r.weight = d.weight /\ r.cc = d.cc
              /\ Len(Published(emitted')) = 1
              /\ Published(emitted')[1].detail = prompts'
              /\ Published(emitted')[1].seen = Deref(heap', prompts')]_vars

\* One notification, for the first key, has given its entry a new text, weight and
\* cc and was published.
C6_Witness ==
  /\ Len(Notifs(emitted)) = 1
  /\ LET d == Notifs(emitted)[1].detail
     IN  /\ d.promptId = PromptIds[1]
         /\ d.text = TextB /\ d.weight = MaxWeight /\ d.cc = 1
         /\ Stored(heap, prompts, d.promptId).text = TextB
         /\ Stored(heap, prompts, d.promptId).weight = MaxWeight
         /\ Stored(heap, prompts, d.promptId).cc = 1
         /\ Len(Published(emitted)) = 1

\* C7: a notification applied right after the same notification leaves the
\* collection, its keys, their order and every record, as the first one left it.
C7_NotificationIdempotent ==
  [][(event'.type = "prompt-changed" /\ event'.again)
       => /\ prompts' = prompts
          /\ Deref(heap', prompts') = Deref(heap, prompts)]_vars

\* A notification for a known id was applied twice in a row.
C7_Witness ==
  /\ KnownNotified(event, prompts)
  /\ event.again
  /\ Stored(heap, prompts, event.detail.promptId).weight = MaxWeight

\* C8: the collection holds the ids of the initial collection, each once.
C8_IdsConstant ==
  /\ Len(prompts) = Len(PromptIds)
  /\ Range(MapKeys(prompts)) = Range(PromptIds)

\* A notification for an unknown id was handled after other events.
C8_Witness ==
  /\ steps >= 2
  /\ UnknownNotified(event, prompts)

\* C9: a unit in learn mode that receives a Control-Change event takes the event's
\* cc and channel, keeps its weight and text, leaves learn mode and makes one
\* notification, which carries the new cc and the unchanged weight.
C9_LearnCapture ==
  [][event'.type = "cc-message"
       => \A i \in Armed :
            /\ ctrl'[i].cc = event'.cc
            /\ ctrl'[i].channel = event'.channel
            /\ ctrl'[i].weight = ctrl[i].weight
            /\ ctrl'[i].text = ctrl[i].text
            /\ ~ctrl'[i].learnMode
            /\ LET own == SelectSeq(Notifs(emitted'), LAMBDA e : e.slot = i)
               IN  /\ Len(own) = 1
                   /\ own[1].detail.cc = event'.cc
                   /\ own[1].detail.weight = ctrl[i].weight]_vars

\* A unit has captured (channel 1, cc 1, value 127): it notified the new cc with a
\* weight that is not the one the value maps to.
C9_Witness ==
  /\ event.type = "cc-message" /\ event.channel = 1 /\ event.cc = 1
  /\ event.value = MaxCCValue
  /\ ~ctrl[1].learnMode /\ ctrl[1].cc = 1 /\ ctrl[1].channel = 1
  /\ \E n \in 1..Len(emitted) :
       /\ emitted[n].type = "prompt-changed" /\ emitted[n].slot = 1
       /\ emitted[n].detail.cc = 1
       /\ emitted[n].detail.weight # weightFromControlChange(event.value)

\* C10: a Control-Change event leaves no unit in learn mode, and changes neither
\* the cc nor the channel of a unit that was not in learn mode when it arrived.
C10_SingleShot ==
  [][event'.type = "cc-message"
       => \A i \in Slots :
            /\ ~ctrl'[i].learnMode
            /\ i \notin Armed
                 => ctrl'[i].cc = ctrl[i].cc /\ ctrl'[i].channel = ctrl[i].channel]_vars

\* A unit that had captured a binding on channel 1 kept it through a later event
\* with another channel and another cc.
C10_Witness ==
  /\ event.type = "cc-message" /\ event.channel = 0
  /\ \E i \in Slots :
       /\ ctrl[i].channel = 1
       /\ ctrl[i].cc # event.cc
       /\ ~ctrl[i].learnMode

\* C11: with no unit in learn mode, a Control-Change event gives every unit bound
\* to the event's cc, whatever the channels, the weight (value/127)*2, in the unit,
\* its knob and the collection; leaves every other prompt and every binding as it
\* was; and the last prompts-changed event it publishes holds each new weight.
C11_ValueRouting ==
  [][(event'.type = "cc-message" /\ Armed = {})
       => LET w == weightFromControlChange(event'.value)
              routed == {i \in Slots : ctrl[i].cc = event'.cc}
          IN  /\ w * MaxCCValue = event'.value * 2 * Unit
              /\ \A i \in routed :
                   /\ ctrl'[i].weight = w
                   /\ knob'[i].value = w
                   /\ heap'[prompts'[i].ref].weight = w
              /\ \A i \in Slots \ routed :
                   /\ ctrl'[i].weight = ctrl[i].weight
                   /\ heap'[prompts'[i].ref] = heap[prompts[i].ref]
              /\ \A i \in Slots :
                   ctrl'[i].cc = ctrl[i].cc /\ ctrl'[i].channel = ctrl[i].channel
              /\ routed # {}
                   => /\ Len(Published(emitted')) = Cardinality(routed)
                      /\ LET last == Published(emitted')[Len(Published(emitted'))]
                         IN  \A i \in routed : last.seen[i].weight = w
              /\ routed = {} => emitted' = <<>>]_vars

\* A Control-Change event on channel 1 moved the first prompt, bound on channel 0,
\* from 1 to 2 and left the second prompt, bound to another cc, at 0.
C11_Witness ==
  /\ event.type = "cc-message" /\ event.channel = 1 /\ event.value = MaxCCValue
  /\ ctrl[1].cc = event.cc /\ ctrl[1].channel = 0
  /\ ctrl[2].cc # event.cc /\ ctrl[2].channel = 0
  /\ ctrl[1].weight = MaxWeight /\ heap[prompts[1].ref].weight = MaxWeight
  /\ heap[prompts[2].ref].weight = MinWeight
  /\ Len(Published(emitted)) = 1

\* C12: when showMidi goes from true to false, by the button, by setShowMidi(false)
\* or by a failed MIDI access, the update that follows leaves no unit in learn mode
\* and no unit showing its CC, whichever units were in learn mode before.
C12_HidingClearsLearnMode ==
  [][(showMidi /\ ~showMidi')
       => \A i \in Slots : ~ctrl'[i].learnMode /\ ~ctrl'[i].showCC]_vars

\* The MIDI button hid the CC display while both units were in learn mode.
C12_Witness ==
  /\ event.type = "click-show-midi"
  /\ event.armed = Slots
  /\ ~showMidi
  /\ Armed = {}

\* C13: a unit in learn mode shows its CC, in every reachable state, and a
\* Control-Change event changes neither the cc nor the channel of a unit that does
\* not show its CC.
C13_NoEditWhileHidden ==
  /\ [](\A i \in Slots : ctrl[i].learnMode => ctrl[i].showCC)
  /\ [][event'.type = "cc-message"
          => \A i \in Slots :
               ~ctrl[i].showCC
                 => /\ ctrl'[i].cc = ctrl[i].cc
                    /\ ctrl'[i].channel = ctrl[i].channel
                    /\ heap'[prompts'[i].ref].cc = heap[prompts[i].ref].cc]_vars

\* With the CC display hidden, a Control-Change event for another cc arrived at a
\* unit that had captured its binding on channel 1, and the binding is still there.
C13_Witness ==
  /\ event.type = "cc-message"
  /\ \A i \in Slots : ~ctrl[i].showCC
  /\ ctrl[1].channel = 1
  /\ ctrl[1].cc # event.cc
  /\ heap[prompts[1].ref].cc = ctrl[1].cc

\* The events of the knob, the text field and the store, none of which is a
\* Control-Change event, a click on the #midi label or a change of showMidi.
OtherEvents ==
  {"pointerdown", "pointermove", "pointerup", "wheel", "blur", "keydown",
   "addFilteredPrompt", "prompt-changed", "midi-access-granted"}

\* C14: a unit in learn mode leaves it only by a Control-Change event, by a click on
\* its own #midi label or when showMidi goes from true to false; pointer, wheel and
\* text events, and steps in which nothing happens, leave the set of units in learn
\* mode as it is.
C14_LearnModeNoTimeout ==
  [][/\ \A i \in Armed :
          ~ctrl'[i].learnMode
            => \/ event'.type = "cc-message"
               \/ event'.type = "click-learn" /\ event'.slot = i
               \/ showMidi /\ ~showMidi'
     /\ event'.type \in OtherEvents => Armed' = Armed]_vars

\* A wheel event has changed the weight of a unit that is in learn mode, and still is.
C14_Witness ==
  /\ event.type = "wheel"
  /\ ctrl[event.slot].learnMode
  /\ ctrl[event.slot].weight # InitialController(event.slot).weight

\* C15: a failed MIDI access dispatches one event, an error event with the message
\* of the failure, leaves showMidi false and no unit showing its CC, and changes
\* neither the collection nor a knob nor a drag in progress; the wheel event and
\* the pointerdown that come next act on the knob and the collection as ever.
C15_MidiAccessFailure ==
  [][/\ event'.type = "midi-access-denied"
          => /\ emitted' = <<[type |-> "error", detail |-> "no midi access"]>>
             /\ ~showMidi'
             /\ \A i \in Slots : ~ctrl'[i].showCC
             /\ prompts' = prompts /\ heap' = heap
             /\ knob' = knob /\ listeners' = listeners
     /\ (event.type = "midi-access-denied" /\ event'.type = "wheel")
          => LET i == event'.slot
                 w == Clamp(knob[i].value - event'.deltaY * WheelStep)
             IN  /\ knob'[i].value = w
                 /\ ctrl'[i].weight = w
                 /\ heap'[prompts'[i].ref].weight = w
                 /\ Len(Published(emitted')) = 1
     /\ (event.type = "midi-access-denied" /\ event'.type = "pointerdown")
          => LET i == event'.slot
             IN  /\ i \in Range(listeners')
                 /\ knob'[i].dragStartPos = event'.clientY
                 /\ knob'[i].dragStartValue = knob[i].value]_vars

\* A MIDI access failed while a knob was being dragged: the error was dispatched,
\* the CC display is off and the drag goes on.
C15_Witness ==
  /\ event.type = "midi-access-denied"
  /\ event.armed = {}
  /\ emitted = <<[type |-> "error", detail |-> "no midi access"]>>
  /\ ~showMidi
  /\ listeners # <<>>
  /\ prompts = InitialPrompts /\ heap = InitialHeap

\* C16: while a getMidiAccess() started by setShowMidi(true) has not settled, the
\* device list is empty, no unit shows its CC and no unit is in learn mode.
C16_PendingAccessHidesMidi ==
  pending > 0
    => /\ midiInputIds = <<>>
       /\ \A i \in Slots : ~ctrl[i].showCC /\ ~ctrl[i].learnMode

\* The notifications made by the units' own handlers among the events es.
OwnNotifs(es) == SelectSeq(Notifs(es), LAMBDA e : e.slot # 0)

\* C17: no text held by the collection or by a unit, and no text notified by a
\* unit, is empty or white space; a blur stores the trimmed content of the field
\* when that is not empty, and the text committed last when it is.
C17_TextCommit ==
  /\ [](/\ \A o \in DOMAIN heap : Trim(heap[o].text) # <<>>
        /\ \A i \in Slots :
             Trim(ctrl[i].text) # <<>> /\ Trim(ctrl[i].lastValidText) # <<>>
        /\ \A n \in 1..Len(OwnNotifs(emitted)) :
             Trim(OwnNotifs(emitted)[n].detail.text) # <<>>)
  /\ [][event'.type = "blur"
          => LET i == event'.slot
                 t == Trim(event'.typed)
                 stored == IF t # <<>> THEN t ELSE ctrl[i].lastValidText
             IN  /\ ctrl'[i].text = stored
                 /\ ctrl'[i].lastValidText = stored
                 /\ heap'[prompts'[i].ref].text = stored]_vars

\* A blur with " b " in the field stored "b".
C17_Witness ==
  /\ event.type = "blur"
  /\ event.typed = <<Space, "b", Space>>
  /\ ctrl[event.slot].text = TextB
  /\ ctrl[event.slot].lastValidText = TextB
  /\ heap[prompts[event.slot].ref].text = TextB
  /\ InitialController(event.slot).text # TextB

\* C18: Escape in the text field puts the text committed last back, in the unit and
\* in the field, and makes no notification; Enter commits the content of the field
\* as a blur does.
C18_EscapeEnter ==
  [][event'.type = "keydown"
       => LET i == event'.slot
              t == Trim(event'.typed)
          IN  IF event'.key = "Escape"
                THEN /\ ctrl'[i].text = ctrl[i].lastValidText
                     /\ ctrl'[i].textContent = ctrl[i].lastValidText
                     /\ Notifs(emitted') = <<>>
                ELSE ctrl'[i].text = IF t # <<>> THEN t ELSE ctrl[i].lastValidText]_vars

\* C19: a blur makes a notification, one, when the trimmed content of the field is
\* not empty; when it is empty the text committed last is put back and no
\* notification is made.
C19_BlurNotifiesCommitOnly ==
  [][event'.type = "blur"
       => LET i == event'.slot
          IN  IF Trim(event'.typed) # <<>>
                THEN /\ Len(Notifs(emitted')) = 1
                     /\ Notifs(emitted')[1].detail.text = Trim(event'.typed)
                ELSE /\ ctrl'[i].text = ctrl[i].lastValidText
                     /\ Notifs(emitted') = <<>>]_vars

\* clamp(dragStartValue + (startY - currentY) * 0.01, 0, 2)
weightFromPointerDrag(dragStartValue, startY, currentY) ==
  Max(MinWeight, Min(MaxWeight, dragStartValue + ((startY - currentY) * Unit) \div 100))

\* C20: a pointerdown records the pointer's y and the knob's value; every
\* pointermove gives each knob being dragged, its unit and the collection the weight
\* clamp(dragStartValue + (startY - currentY) * 0.01, 0, 2) of what was recorded; a
\* pointermove to a y not below the one before it does not lower the weight; and
\* from y 100 with value 1 to y 50 the weight is 1.5.
C20_PointerDrag ==
  [][/\ event'.type = "pointerdown"
          => /\ knob'[event'.slot].dragStartPos = event'.clientY
             /\ knob'[event'.slot].dragStartValue = knob[event'.slot].value
     /\ event'.type = "pointermove"
          => \A i \in Range(listeners) :
               LET w == weightFromPointerDrag(knob[i].dragStartValue, knob[i].dragStartPos,
                                              event'.clientY)
               IN  /\ knob'[i].value = w
                   /\ ctrl'[i].weight = w
                   /\ heap'[prompts'[i].ref].weight = w
                   /\ knob'[i].dragStartPos = knob[i].dragStartPos
                   /\ knob'[i].dragStartValue = knob[i].dragStartValue
     /\ (event.type = "pointermove" /\ event'.type = "pointermove"
           /\ event'.clientY <= event.clientY)
          => \A i \in Range(listeners) : knob'[i].value >= knob[i].value
     /\ weightFromPointerDrag(Unit, 100, 50) * 2 = 3 * Unit]_vars

\* The first knob, at 1, was pressed at y 100 and dragged to y 50: it is at 1.5, and
\* so are its unit and the collection.
C20_Witness ==
  /\ event.type = "pointermove" /\ event.clientY = 50
  /\ 1 \in Range(listeners)
  /\ knob[1].dragStartPos = 100 /\ knob[1].dragStartValue = Unit
  /\ knob[1].value * 2 = 3 * Unit
  /\ ctrl[1].weight = knob[1].value
  /\ heap[prompts[1].ref].weight = knob[1].value

\* clamp(currentValue - deltaY * 0.0025, 0, 2)
weightFromWheel(currentValue, deltaY) ==
  Max(MinWeight, Min(MaxWeight, currentValue - (deltaY * Unit) \div 400))

\* C21: every wheel event gives the knob, its unit and the collection the weight
\* clamp(currentValue - deltaY * 0.0025, 0, 2) of the knob's value when the event
\* arrives; a positive deltaY does not raise the weight and a negative one does
\* not lower it; and a knob at 0 or 2 that is pushed outwards stays there.
C21_Wheel ==
  [][event'.type = "wheel"
       => LET i == event'.slot
              w == weightFromWheel(knob[i].value, event'.deltaY)
          IN  /\ knob'[i].value = w
              /\ ctrl'[i].weight = w
              /\ heap'[prompts'[i].ref].weight = w
              /\ event'.deltaY > 0 => knob'[i].value <= knob[i].value
              /\ event'.deltaY < 0 => knob'[i].value >= knob[i].value
              /\ (knob[i].value = MinWeight /\ event'.deltaY > 0)
                   => knob'[i].value = MinWeight
              /\ (knob[i].value = MaxWeight /\ event'.deltaY < 0)
                   => knob'[i].value = MaxWeight]_vars

\* The second knob, at 0 since the start, was scrolled down and is still at 0.
C21_Witness ==
  /\ steps = 1
  /\ event.type = "wheel" /\ event.slot = 2 /\ event.deltaY > 0
  /\ InitialController(2).weight = MinWeight
  /\ knob[2].value = MinWeight
  /\ heap[prompts[2].ref].weight = MinWeight
  /\ Len(Published(emitted)) = 1

\* Half a step of the Control-Change mapping: 1/127.
CCTolerance == Unit \div MaxCCValue

Distance(a, b) == IF a < b THEN b - a ELSE a - b

\* C22: value 0 maps to 0, 127 to 2, 63 and 64 to within 1/127 of 1, and a larger
\* value never to a smaller weight; a routed Control-Change event gives every unit
\* bound to its cc the weight its value maps to, whatever the weight was before.
C22_ControlChangeMapping ==
  [][/\ weightFromControlChange(0) = MinWeight
     /\ weightFromControlChange(MaxCCValue) = MaxWeight
     /\ Distance(weightFromControlChange(63), Unit) <= CCTolerance
     /\ Distance(weightFromControlChange(64), Unit) <= CCTolerance
     /\ \A v \in 0..MaxCCValue :
          /\ weightFromControlChange(v) * MaxCCValue = v * 2 * Unit
          /\ v > 0 => weightFromControlChange(v - 1) <= weightFromControlChange(v)
     /\ event'.type = "cc-message"
          => \A i \in Slots :
               (~ctrl[i].learnMode /\ ctrl[i].cc = event'.cc)
                 => /\ ctrl'[i].weight = weightFromControlChange(event'.value)
                    /\ heap'[prompts'[i].ref].weight
                         = weightFromControlChange(event'.value)]_vars

\* Value 64 has moved the second prompt from 0 to a weight just above 1.
C22_Witness ==
  /\ event.type = "cc-message" /\ event.value = 64
  /\ ctrl[2].cc = event.cc
  /\ InitialController(2).weight = MinWeight
  /\ ctrl[2].weight > Unit /\ ctrl[2].weight - Unit <= CCTolerance
  /\ heap[prompts[2].ref].weight = ctrl[2].weight
  /\ knob[2].value = ctrl[2].weight

\* C23: a pointermove makes one notification per knob being dragged, in the order
\* the knobs were pressed, each with the weight computed from the event's y, and the
\* store publishes one snapshot per notification, in that order, holding that
\* weight; a pointerup makes none and changes no record, so that after a pointerup
\* that follows a pointermove the stored weight is the one computed from the y of
\* that last move.
C23_DragNotifications ==
  [][/\ event'.type = "pointermove"
          => /\ Len(Notifs(emitted')) = Len(listeners)
             /\ Len(Published(emitted')) = Len(listeners)
             /\ \A n \in 1..Len(listeners) :
                  LET i == listeners[n]
                      w == weightFromPointerDrag(knob[i].dragStartValue,
                                                 knob[i].dragStartPos, event'.clientY)
                  IN  /\ Notifs(emitted')[n].slot = i
                      /\ Notifs(emitted')[n].detail.weight = w
                      /\ Published(emitted')[n].seen[i].weight = w
                      /\ heap'[prompts'[i].ref].weight = w
     /\ event'.type = "pointerup"
          => /\ emitted' = <<>>
             /\ heap' = heap /\ prompts' = prompts
             /\ event.type = "pointermove"
                  => \A i \in Range(listeners) :
                       heap'[prompts'[i].ref].weight
                         = weightFromPointerDrag(knob[i].dragStartValue,
                                                 knob[i].dragStartPos, event.clientY)]_vars

\* A drag of the first knob from y 100 to y 50 has ended: the collection holds 1.5.
C23_Witness ==
  /\ event.type = "pointerup"
  /\ steps = 3
  /\ listeners = <<>>
  /\ knob[1].dragStartPos = 100 /\ knob[1].dragStartValue = Unit
  /\ heap[prompts[1].ref].weight * 2 = 3 * Unit

\* C24: a pointermove that comes right after a pointerup or a loss of focus
\* recomputes no weight and makes no notification.
C24_DragEnds ==
  [][(event.type \in {"pointerup", "focus-lost"} /\ event'.type = "pointermove")
       => /\ emitted' = <<>>
          /\ knob' = knob
          /\ heap' = heap]_vars

NoDuplicates(q) == \A m, n \in 1..Len(q) : q[m] = q[n] => m = n

\* C30: a pointerdown records the pointer's y and the knob's value and registers
\* the knob's listeners unless they are registered; a pointermove makes one
\* notification for each knob pressed since the last pointerup and leaves every
\* other knob and record alone; a pointerup leaves no listener registered; and no
\* other event registers or removes one.
C30_DragListeners ==
  [][/\ NoDuplicates(listeners')
     /\ event'.type = "pointerdown"
          => LET i == event'.slot
             IN  /\ knob'[i].dragStartPos = event'.clientY
                 /\ knob'[i].dragStartValue = knob[i].value
                 /\ knob'[i].value = knob[i].value
                 /\ listeners' = IF i \in Range(listeners) THEN listeners
                                 ELSE Append(listeners, i)
     /\ event'.type = "pointermove"
          => \A i \in Slots :
               LET own == SelectSeq(Notifs(emitted'), LAMBDA e : e.slot = i)
               IN  IF i \in Range(listeners)
                     THEN Len(own) = 1
                     ELSE /\ own = <<>>
                          /\ knob'[i] = knob[i]
                          /\ heap'[prompts'[i].ref] = heap[prompts[i].ref]
     /\ event'.type = "pointerup" => listeners' = <<>>
     /\ event'.type \notin {"pointerdown", "pointerup"} => listeners' = listeners]_vars

\* A knob that was being dragged was pressed again at another y: its listeners are
\* registered once and the drag starts from the new y.
C30_Witness ==
  /\ event.type = "pointerdown" /\ event.dragging
  /\ listeners = <<event.slot>>
  /\ knob[event.slot].dragStartPos = event.clientY
  /\ knob[event.slot].dragStartValue = knob[event.slot].value
  /\ knob[event.slot].value # InitialController(event.slot).weight

\* The notifications of unit i among the events es, in order.
NotifsOf(es, i) == SelectSeq(Notifs(es), LAMBDA e : e.slot = i)

\* C25: with no unit in learn mode, two Control-Change events for one cc that
\* arrive before the update cycle runs are both applied, in the order they arrived:
\* every unit bound to the cc notifies the weight of the first and then the weight
\* of the second, the store publishes a snapshot for each, in that order, and the
\* weight left in the unit, the knob and the collection is the second one.  The
\* same holds for two events with a re-render between them.
C25_ControlChangeOrder ==
  [][/\ (event'.type = "cc-messages" /\ Armed = {})
          => LET routed == {i \in Slots : ctrl[i].cc = event'.cc}
                 w1 == weightFromControlChange(event'.first)
                 w2 == weightFromControlChange(event'.second)
             IN  /\ Len(Published(emitted')) = 2 * Cardinality(routed)
                 /\ \A n \in 1..Len(emitted') :
                      emitted'[n].type = "prompt-changed"
                        => /\ n < Len(emitted')
                           /\ emitted'[n + 1].type = "prompts-changed"
                           /\ emitted'[n + 1].seen[emitted'[n].slot].weight
                                = emitted'[n].detail.weight
                 /\ \A i \in routed :
                      /\ Len(NotifsOf(emitted', i)) = 2
                      /\ NotifsOf(emitted', i)[1].detail.weight = w1
                      /\ NotifsOf(emitted', i)[2].detail.weight = w2
                      /\ ctrl'[i].weight = w2
                      /\ knob'[i].value = w2
                      /\ heap'[prompts'[i].ref].weight = w2
     /\ (event.type = "cc-message" /\ event'.type = "cc-message"
           /\ event'.cc = event.cc /\ Armed = {})
          => LET routed == {i \in Slots : ctrl[i].cc = event'.cc}
             IN  /\ Len(Published(emitted')) = Cardinality(routed)
                 /\ \A i \in routed :
                      /\ Len(NotifsOf(emitted, i)) = 1
                      /\ Len(NotifsOf(emitted', i)) = 1
                      /\ heap'[prompts'[i].ref].weight
                           = weightFromControlChange(event'.value)]_vars

\* Values 127 and 0 for the cc of the first prompt arrived together: the unit
\* notified 2 and then 0, and the collection holds 0.
C25_Witness ==
  /\ event.type = "cc-messages" /\ event.first = MaxCCValue /\ event.second = 0
  /\ ctrl[1].cc = event.cc /\ ctrl[1].channel # event.channel
  /\ Len(NotifsOf(emitted, 1)) = 2
  /\ NotifsOf(emitted, 1)[1].detail.weight = MaxWeight
  /\ NotifsOf(emitted, 1)[2].detail.weight = MinWeight
  /\ heap[prompts[1].ref].weight = MinWeight

\* C29: once every acquisition has settled, showMidi is true exactly when the most
\* recent call of setShowMidi was a call with true whose own acquisition succeeded.
C29_LatestCallWins ==
  pending = 0 => (showMidi <=> latest = "granted")

\* C27: a unit is filtered exactly when the text of its prompt is in the filter set;
\* the weight given to the knob of a filtered unit is 0; the filter set only grows,
\* by addFilteredPrompt, which changes no record; and a text edit leaves the
\* stored weight of its prompt as it was.
C27_Filtered ==
  /\ [](\A i \in Slots :
          /\ ctrl[i].filtered <=> heap[prompts[i].ref].text \in filteredPrompts
          /\ ctrl[i].filtered => knobRendered[i] = MinWeight /\ knob[i].value = MinWeight)
  /\ [][/\ filteredPrompts \subseteq filteredPrompts'
        /\ filteredPrompts' # filteredPrompts => event'.type = "addFilteredPrompt"
        /\ event'.type = "addFilteredPrompt"
             => /\ filteredPrompts' = filteredPrompts \cup {event'.text}
                /\ heap' = heap /\ prompts' = prompts
        /\ event'.type \in {"blur", "keydown"}
             => heap'[prompts'[event'.slot].ref].weight
                  = heap[prompts[event'.slot].ref].weight]_vars

\* C26: whatever the order in which drags, wheel events, Control-Change events and
\* text edits come, every notification is published by the store; the record of a
\* prompt whose unit made no notification is left as it was; and the record of a
\* prompt whose unit did holds the unit's text, weight and cc afterwards, of which
\* a knob event has changed the weight only, a text edit the text only, a captured
\* Control-Change event the cc only and a routed one the weight only.
C26_NoLostEdits ==
  [][/\ Len(Published(emitted')) = Len(Notifs(emitted'))
     /\ \A i \in Slots :
          LET old == heap[prompts[i].ref]
              new == heap'[prompts'[i].ref]
          IN  IF NotifsOf(emitted', i) = <<>>
                THEN new = old
                ELSE /\ new.text = ctrl'[i].text
                     /\ new.weight = ctrl'[i].weight
                     /\ new.cc = ctrl'[i].cc
                     /\ event'.type \in {"wheel", "pointermove"}
                          => /\ new.text = old.text /\ new.cc = old.cc
                             /\ new.weight = knob'[i].value
                     /\ event'.type = "blur"
                          => new.weight = old.weight /\ new.cc = old.cc
                     /\ event'.type = "cc-message"
                          => /\ new.text = old.text
                             /\ IF ctrl[i].learnMode
                                  THEN new.weight = old.weight /\ new.cc = event'.cc
                                  ELSE /\ new.cc = old.cc
                                       /\ new.weight
                                            = weightFromControlChange(event'.value)]_vars

\* After a text edit to "b" and the capture of cc 1 on channel 1, a wheel event took
\* the first prompt to 0: the collection holds the three of them.
C26_Witness ==
  /\ event.type = "wheel" /\ event.slot = 1
  /\ ctrl[1].channel = 1
  /\ heap[prompts[1].ref].cc = 1 /\ InitialController(1).cc # 1
  /\ heap[prompts[1].ref].text = TextB /\ InitialController(1).text # TextB
  /\ heap[prompts[1].ref].weight = MinWeight /\ InitialController(1).weight # MinWeight

\* C28: after every handler and the re-render it asked for, the record of each
\* prompt has the text, the weight and the cc of its unit, and the knob of the
\* unit has the unit's weight.
C28_StoreAgreesWithUnits ==
  \A i \in Slots :
    /\ heap[prompts[i].ref].text = ctrl[i].text
    /\ heap[prompts[i].ref].weight = ctrl[i].weight
    /\ heap[prompts[i].ref].cc = ctrl[i].cc
    /\ knob[i].value = ctrl[i].weight
    /\ knobRendered[i] = ctrl[i].weight

\* The first unit, after a text edit, a learn capture and a drag that started at 0:
\* record, unit and knob hold "b", cc 1 and 0.5.
C28_Witness ==
  /\ event.type = "pointermove"
  /\ ctrl[1].text = TextB
  /\ ctrl[1].cc = 1 /\ ctrl[1].channel = 1
  /\ knob[1].dragStartValue = MinWeight
  /\ knob[1].value * 2 = Unit
  /\ heap[prompts[1].ref].weight * 2 = Unit
  /\ heap[prompts[1].ref].text = TextB
  /\ heap[prompts[1].ref].cc = 1

====
